---- MODULE Spec2Model ----
(***************************************************************************)
(* Model of src/soun_bot.py: the SOUN cycle bot.  One iteration of the     *)
(* __main__ loop is one call of SOUNCycleBot.run; the ledger is self.data  *)
(* and the durable record is the file soun_cycle_data.json.                *)
(*                                                                         *)
(* Numbers.  Money is counted in whole dollars.  Share quantities are      *)
(* counted in units of 1/ShareScale share, and the quote prices are chosen *)
(* so that dca_amount / price is a whole number of such units.             *)
(* An optional value (Python None or a value) is a sequence of length 0    *)
(* or 1.                                                                   *)
(***************************************************************************)
EXTENDS Integers, Sequences, FiniteSets, TLC

VARIABLES data, disk, today, fillsToday, nfills, lastFill, tick, host

vars == <<data, disk, today, fillsToday, nfills, lastFill, tick, host>>

-----------------------------------------------------------------------------
(* Bounds of the model *)

\* calendar days the clock runs through
MaxDay == 3

\* orders the broker accepts in one run of the model
MaxOrders == 3

-----------------------------------------------------------------------------
(* Program constants and the value sets of the inputs *)

dca_amount == 20

DailyLimit == 2

ShareScale == 3

None == <<>>

Some(x) == <<x>>

Days == 1..MaxDay

\* ask/bid quotes get_price can return; 0 is what a missing quote yields
Prices == {0, 3, 4, 5}

\* buying power get_balance can return
Balances == {4, 20}

ZeroState ==
    [ last_single_share_price |-> None,
      total_invested          |-> 0,
      total_shares            |-> 0,
      waiting_for_dca         |-> FALSE,
      trades_today            |-> 0,
      last_trade_date         |-> None ]

\* the keys of self.data
Fields ==
    { "last_single_share_price", "total_invested", "total_shares",
      "waiting_for_dca", "trades_today", "last_trade_date" }

\* key in self.data
Has(d, k) == k \in DOMAIN d

\* self.data[key] = value: the key is added when the dict lacks it
Put(d, k, v) ==
    IF Has(d, k) THEN [ d EXCEPT ![k] = v ]
    ELSE [ x \in DOMAIN d \cup {k} |-> IF x = k THEN v ELSE d[x] ]

\* the file soun_cycle_data.json: absent, a JSON document, or unparseable
NoFile == [ status |-> "missing", content |-> ZeroState ]

Stored(d) == [ status |-> "ok", content |-> d ]

Corrupt == [ status |-> "corrupt", content |-> ZeroState ]

\* what one tick gets from its collaborators: the quote, the buying power,
\* the broker's answer to submit_order, and which save_data call of the tick
\* (0: none) raises, either in open (the file is left alone) or in
\* json.dump (the file is left truncated)
Env(p, b, a, k, w) ==
    [ price |-> p, balance |-> b, broker |-> a, failAt |-> k, failMode |-> w ]

-----------------------------------------------------------------------------
(* The machine: the bot's memory and file during one call of run.          *)
(*   raised    an exception is propagating                                 *)
(*   ret       the return value of the buy function last called            *)
(*   nsaves    save_data calls made so far in this tick                    *)
(*   order     the order submitted to the broker in this tick              *)
(*   accepted  the broker accepted it                                      *)
(*   saveFailed  a save_data call raised in this tick                      *)
(*   keyError  a lookup of a key self.data lacks raised in this tick       *)
(*   outcome   the branch of run that ended the tick                       *)

Machine(d, f) ==
    [ data |-> d, disk |-> f, raised |-> FALSE, ret |-> FALSE, nsaves |-> 0,
      order |-> "none", accepted |-> FALSE, saveFailed |-> FALSE,
      keyError |-> FALSE, outcome |-> "start" ]

\* save_data: open(..., 'w') truncates the file, json.dump writes it
save_data(m, env) ==
    IF m.nsaves + 1 = env.failAt
    THEN [ m EXCEPT !.nsaves = @ + 1, !.raised = TRUE, !.saveFailed = TRUE,
                    !.disk = IF env.failMode = "write" THEN Corrupt ELSE @ ]
    ELSE [ m EXCEPT !.nsaves = @ + 1, !.disk = Stored(m.data) ]

\* seeded fault: the reset moves last_trade_date and keeps the count
check_daily_trade_limit_keeps_count(m, env, day) ==
    IF m.data.last_trade_date # Some(day)
    THEN save_data([ m EXCEPT !.data.last_trade_date = Some(day) ], env)
    ELSE m

\* seeded fault: the reset forgets to move last_trade_date
check_daily_trade_limit_keeps_date(m, env, day) ==
    IF m.data.last_trade_date # Some(day)
    THEN save_data([ m EXCEPT !.data.trades_today = 0 ], env)
    ELSE m

\* check_daily_trade_limit, the reset part (lines 52-56)
check_daily_trade_limit(m, env, day) ==
    IF m.data.last_trade_date # Some(day)
    THEN save_data([ m EXCEPT !.data.trades_today = 0,
                              !.data.last_trade_date = Some(day) ], env)
    ELSE m

\* seeded fault: the limit test is off by one
can_trade_off_by_one(d) == ~(d.trades_today > DailyLimit)

\* check_daily_trade_limit, the value returned (lines 58-61)
can_trade(d) == ~(d.trades_today >= DailyLimit)

\* seeded fault: the trade is saved but not counted
record_trade_uncounted(m, env) == save_data(m, env)

\* record_trade
record_trade(m, env) ==
    save_data([ m EXCEPT !.data.trades_today = @ + 1 ], env)

\* seeded fault: the unit buy does not record the price it was made at
UnitBuyUpdate_no_reference(d, price) ==
    [ d EXCEPT !.total_invested = @ + price,
               !.total_shares = @ + ShareScale,
               !.waiting_for_dca = TRUE ]

\* seeded fault: the unit buy adds the price, not one share, to the shares
UnitBuyUpdate_price_as_shares(d, price) ==
    [ d EXCEPT !.last_single_share_price = Some(price),
               !.total_invested = @ + price,
               !.total_shares = @ + price * ShareScale,
               !.waiting_for_dca = TRUE ]

\* self.data lacks a key that the bookkeeping of a buy adds to with +=
TotalsMissing(d) == ~Has(d, "total_invested") \/ ~Has(d, "total_shares")

\* the bookkeeping of buy_single_share after the order went through, lines
\* 111-114 in order, as far as they get before a += on an absent key raises
UnitBuyUpdate(d, price) ==
    LET d1 == Put(d, "last_single_share_price", Some(price)) IN
    IF ~Has(d1, "total_invested") THEN d1
    ELSE LET d2 == [ d1 EXCEPT !.total_invested = @ + price ] IN
         IF ~Has(d2, "total_shares") THEN d2
         ELSE Put([ d2 EXCEPT !.total_shares = @ + ShareScale ],
                  "waiting_for_dca", TRUE)

\* seeded fault: the bookkeeping is done before submit_order is called
buy_single_share_books_first(m, env) ==
    LET m1 == [ m EXCEPT !.order = "unit",
                         !.data = UnitBuyUpdate(@, env.price) ] IN
    IF env.broker = "reject"
    THEN [ m1 EXCEPT !.ret = FALSE ]
    ELSE LET m2 == record_trade([ m1 EXCEPT !.accepted = TRUE ], env)
             m3 == IF m2.raised THEN m2 ELSE save_data(m2, env)
         IN  [ m3 EXCEPT !.raised = FALSE, !.ret = ~m3.raised ]

\* buy_single_share: everything from submit_order on is inside one try
buy_single_share(m, env) ==
    LET sent == [ m EXCEPT !.order = "unit" ] IN
    IF env.broker = "reject"
    THEN [ sent EXCEPT !.ret = FALSE ]
    ELSE LET m1 == [ sent EXCEPT !.accepted = TRUE,
                                 !.data = UnitBuyUpdate(@, env.price) ]
         IN  IF TotalsMissing(m.data)
             THEN [ m1 EXCEPT !.keyError = TRUE, !.ret = FALSE ]
             ELSE LET m2 == record_trade(m1, env)
                      m3 == IF m2.raised THEN m2 ELSE save_data(m2, env)
                  IN  [ m3 EXCEPT !.raised = FALSE, !.ret = ~m3.raised ]

\* dca_amount / current_price, in units of 1/ShareScale share (price # 0)
Shares(price) ==
    IF price > 0
    THEN (dca_amount * ShareScale) \div price
    ELSE 0 - ((dca_amount * ShareScale) \div (0 - price))

\* seeded fault: the DCA bookkeeping moves the reference price to its price
DcaUpdate_moves_reference(d, price) ==
    [ d EXCEPT !.last_single_share_price = Some(price),
               !.total_invested = @ + dca_amount,
               !.total_shares = @ + Shares(price) ]

\* the bookkeeping of dca_buy after the order went through, lines 144-145,
\* as far as they get before a += on an absent key raises
DcaUpdate(d, price) ==
    IF ~Has(d, "total_invested") THEN d
    ELSE LET d1 == [ d EXCEPT !.total_invested = @ + dca_amount ] IN
         IF ~Has(d1, "total_shares") THEN d1
         ELSE [ d1 EXCEPT !.total_shares = @ + Shares(price) ]

\* dca_buy: the division is outside the try, the rest inside
dca_buy(m, env) ==
    IF env.price = 0
    THEN [ m EXCEPT !.raised = TRUE ]
    ELSE LET sent == [ m EXCEPT !.order = "dca" ] IN
         IF env.broker = "reject"
         THEN [ sent EXCEPT !.ret = FALSE ]
         ELSE LET m1 == [ sent EXCEPT !.accepted = TRUE,
                                      !.data = DcaUpdate(@, env.price) ]
              IN  IF TotalsMissing(m.data)
                  THEN [ m1 EXCEPT !.keyError = TRUE, !.ret = FALSE ]
                  ELSE LET m2 == record_trade(m1, env)
                           m3 == IF m2.raised THEN m2
                                 ELSE save_data(m2, env)
                       IN  [ m3 EXCEPT !.raised = FALSE, !.ret = ~m3.raised ]

\* run, lines 209-225: the position report looks up both totals and
\* divides by total_invested
show_position(m, env) ==
    IF ~Has(m.data, "total_shares")
    THEN [ m EXCEPT !.raised = TRUE, !.keyError = TRUE ]
    ELSE IF m.data.total_shares > 0
         THEN IF ~Has(m.data, "total_invested")
              THEN [ m EXCEPT !.raised = TRUE, !.keyError = TRUE ]
              ELSE IF m.data.total_invested = 0
                   THEN [ m EXCEPT !.raised = TRUE ]
                   ELSE m
         ELSE m

\* seeded fault: the unit buy is attempted whatever the balance
unit_branch_no_funds_check(m, env) ==
    [ buy_single_share(m, env) EXCEPT !.outcome = "unit" ]

\* run, lines 178-185: the unit-buy branch
unit_branch(m, env) ==
    IF env.balance >= env.price
    THEN [ buy_single_share(m, env) EXCEPT !.outcome = "unit" ]
    ELSE [ m EXCEPT !.outcome = "no_funds_unit" ]

\* seeded fault: the price test is <= instead of <
dca_branch_not_strict(m, env) ==
    IF m.data.last_single_share_price = None
    THEN [ m EXCEPT !.raised = TRUE, !.outcome = "no_reference" ]
    ELSE LET last_price == m.data.last_single_share_price[1] IN
         IF env.price <= last_price
         THEN IF env.balance >= dca_amount
              THEN LET b == [ dca_buy(m, env) EXCEPT !.outcome = "dca" ] IN
                   IF b.raised \/ ~b.ret
                   THEN b
                   ELSE save_data([ b EXCEPT !.data.waiting_for_dca = FALSE ],
                                  env)
              ELSE [ m EXCEPT !.outcome = "no_funds_dca" ]
         ELSE [ m EXCEPT !.outcome = "waiting" ]

\* run, lines 188-207: the DCA branch
dca_branch(m, env) ==
    IF ~Has(m.data, "last_single_share_price")
    THEN [ m EXCEPT !.raised = TRUE, !.keyError = TRUE,
                    !.outcome = "key_error" ]
    ELSE
    IF m.data.last_single_share_price = None
    THEN [ m EXCEPT !.raised = TRUE, !.outcome = "no_reference" ]
    ELSE LET last_price == m.data.last_single_share_price[1] IN
         IF env.price < last_price
         THEN IF env.balance >= dca_amount
              THEN LET b == [ dca_buy(m, env) EXCEPT !.outcome = "dca" ] IN
                   IF b.raised \/ ~b.ret
                   THEN b
                   ELSE save_data([ b EXCEPT !.data.waiting_for_dca = FALSE ],
                                  env)
              ELSE [ m EXCEPT !.outcome = "no_funds_dca" ]
         ELSE [ m EXCEPT !.outcome = "waiting" ]

\* run, from the daily-limit check on (balance and price are in env)
run(d, f, env, day) ==
    LET m0 == check_daily_trade_limit(Machine(d, f), env, day) IN
    IF m0.raised
    THEN [ m0 EXCEPT !.outcome = "rollover_save" ]
    ELSE IF ~can_trade(m0.data)
         THEN [ m0 EXCEPT !.outcome = "daily_limit" ]
         ELSE IF ~Has(m0.data, "waiting_for_dca")
              THEN [ m0 EXCEPT !.raised = TRUE, !.keyError = TRUE,
                               !.outcome = "key_error" ]
              ELSE LET m1 == IF ~m0.data.waiting_for_dca
                             THEN unit_branch(m0, env)
                             ELSE dca_branch(m0, env)
                   IN  IF m1.raised THEN m1 ELSE show_position(m1, env)

-----------------------------------------------------------------------------
(* The state machine *)

\* what is kept of the last call of run
TickRecord(m, env) ==
    [ outcome |-> m.outcome, price |-> env.price, balance |-> env.balance,
      order |-> m.order, accepted |-> m.accepted, raised |-> m.raised,
      saveFailed |-> m.saveFailed, keyError |-> m.keyError ]

NoTick ==
    [ outcome |-> "start", price |-> 0, balance |-> 4, order |-> "none",
      accepted |-> FALSE, raised |-> FALSE, saveFailed |-> FALSE,
      keyError |-> FALSE ]

\* seeded fault: only trades_today is added to a file that lacks the newer
\* keys
__init___one_backfill(f) ==
    IF f.status = "ok"
    THEN LET d == f.content IN
         [ k \in DOMAIN d \cup {"trades_today"} |->
               IF k \in DOMAIN d THEN d[k] ELSE 0 ]
    ELSE ZeroState

\* seeded fault: the zero state built for a missing or unparseable file
\* predates the two newer keys
__init___old_zero_state(f) ==
    IF f.status = "ok"
    THEN LET d == f.content IN
         [ k \in DOMAIN d \cup {"trades_today", "last_trade_date"} |->
               IF k \in DOMAIN d THEN d[k]
               ELSE IF k = "trades_today" THEN 0 ELSE None ]
    ELSE [ k \in Fields \ {"trades_today", "last_trade_date"} |->
               ZeroState[k] ]

\* __init__, lines 25-42: the file is read as it is, the two newer keys are
\* added when absent; a missing or unparseable file gives the zero state
__init__(f) ==
    IF f.status = "ok"
    THEN LET d == f.content IN
         [ k \in DOMAIN d \cup {"trades_today", "last_trade_date"} |->
               IF k \in DOMAIN d THEN d[k]
               ELSE IF k = "trades_today" THEN 0 ELSE None ]
    ELSE ZeroState

\* the threads of a host that calls run on the one bot object
Threads == {1, 2}

\* no thread is inside run; nothing has been ordered
NoHost ==
    [ pc      |-> [ t \in Threads |-> "idle" ],
      price   |-> [ t \in Threads |-> 0 ],
      reg     |-> [ t \in Threads |-> 0 ],
      overlap |-> FALSE,
      ordered |-> 0,
      cost    |-> 0 ]

\* the process exists: it has been constructed and not been killed since
ProcessUp == tick.outcome \notin {"off", "killed"}

\* the process constructed on a machine with no data file
Init ==
    /\ data = ZeroState
    /\ disk = NoFile
    /\ today = 1
    /\ fillsToday = 0
    /\ nfills = 0
    /\ lastFill = "none"
    /\ tick = NoTick
    /\ host = NoHost

\* the save_data calls run makes on these inputs when none of them raises
SaveCalls(p, b, a) == run(data, disk, Env(p, b, a, 0, "open"), today).nsaves

\* one iteration of the __main__ loop in which get_balance and get_price
\* answer
Run ==
    /\ ProcessUp
    /\ \E p \in Prices, b \in Balances, a \in {"accept", "reject"} :
        /\ a = "accept" => nfills < MaxOrders
        /\ \E k \in 0..SaveCalls(p, b, a), w \in {"open", "write"} :
            /\ k = 0 => w = "open"
            /\ LET env == Env(p, b, a, k, w)
                   m == run(data, disk, env, today)
               IN  /\ data' = m.data
                   /\ disk' = m.disk
                   /\ fillsToday' = IF m.accepted THEN fillsToday + 1
                                                  ELSE fillsToday
                   /\ nfills' = IF m.accepted THEN nfills + 1 ELSE nfills
                   /\ lastFill' = IF m.accepted THEN m.order ELSE lastFill
                   /\ tick' = TickRecord(m, env)
    /\ UNCHANGED <<today, host>>

\* one iteration in which get_balance or get_price raises: run ends before
\* the daily-limit check, the loop catches the exception
RunFetchFails ==
    /\ ProcessUp
    /\ tick' = [ NoTick EXCEPT !.outcome = "fetch_error", !.raised = TRUE ]
    /\ UNCHANGED <<data, disk, today, fillsToday, nfills, lastFill, host>>

\* midnight passes between two iterations
NextDay ==
    /\ today < MaxDay
    /\ today' = today + 1
    /\ fillsToday' = 0
    /\ UNCHANGED <<data, disk, nfills, lastFill, tick, host>>

Next == Run \/ RunFetchFails \/ NextDay

Spec == Init /\ [][Next]_vars

-----------------------------------------------------------------------------
(* The loop left running: midnight keeps coming while the calendar of the  *)
(* model lasts, and an iteration in which the funds cover the quote and    *)
(* the broker accepts the unit buy is not put off forever.                 *)

\* run would submit a unit buy: the process is up, the phase is
\* AccumulatePending and the daily limit is not reached on today's date;
\* the broker of the model has an order left to accept
UnitBuyPossible ==
    /\ ProcessUp
    /\ nfills < MaxOrders
    /\ ~data.waiting_for_dca
    /\ can_trade(check_daily_trade_limit(
                     Machine(data, disk), Env(0, 0, "accept", 0, "open"),
                     today).data)

\* an iteration of the loop in which the broker accepts a unit buy
UnitBuyAccepted ==
    /\ nfills' = nfills + 1
    /\ tick'.order = "unit"
    /\ tick'.accepted

\* weak fairness of midnight and of the accepted unit buy
SpecLive ==
    /\ Init /\ [][Next]_vars
    /\ WF_vars(NextDay)
    /\ ([]<>~UnitBuyPossible) \/ ([]<><<UnitBuyAccepted>>_vars)

-----------------------------------------------------------------------------
(* The process killed and started again.  While the process is down, data  *)
(* keeps the ledger it had in memory when it died.                         *)

\* the process ends between two iterations (KeyboardInterrupt during
\* time.sleep, lines 234-237, or a kill)
Kill ==
    /\ ProcessUp
    /\ tick' = [ NoTick EXCEPT !.outcome = "killed" ]
    /\ UNCHANGED <<data, disk, today, fillsToday, nfills, lastFill, host>>

\* the process is killed inside run, at its k-th save_data call: before the
\* call opens the file ("open": the file is as the calls before left it) or
\* inside json.dump ("write": the file is left truncated).  Nothing in run
\* writes the file after a save_data call that raised, so file, memory and
\* broker are then as run leaves them when that call raises.
KilledInRun ==
    /\ ProcessUp
    /\ \E p \in Prices, b \in Balances, a \in {"accept", "reject"} :
        /\ a = "accept" => nfills < MaxOrders
        /\ \E k \in 1..SaveCalls(p, b, a), w \in {"open", "write"} :
            LET env == Env(p, b, a, k, w)
                m == run(data, disk, env, today)
            IN  /\ data' = m.data
                /\ disk' = m.disk
                /\ fillsToday' = IF m.accepted THEN fillsToday + 1
                                               ELSE fillsToday
                /\ nfills' = IF m.accepted THEN nfills + 1 ELSE nfills
                /\ lastFill' = IF m.accepted THEN m.order ELSE lastFill
                /\ tick' = [ TickRecord(m, env) EXCEPT !.outcome = "killed",
                                                       !.raised = FALSE,
                                                       !.saveFailed = FALSE ]
    /\ UNCHANGED <<today, host>>

\* the script is started again: __init__ reads the file
Start ==
    /\ ~ProcessUp
    /\ data' = __init__(disk)
    /\ tick' = [ NoTick EXCEPT !.outcome = "loaded" ]
    /\ UNCHANGED <<disk, today, fillsToday, nfills, lastFill, host>>

NextCrash == Run \/ RunFetchFails \/ NextDay \/ Kill \/ KilledInRun \/ Start

SpecCrash == Init /\ [][NextCrash]_vars

-----------------------------------------------------------------------------
(* The script started on a data file left by an earlier run, possibly one  *)
(* of an older version of the script that did not write every key.         *)

\* ledgers an earlier run saved: after its first rollover, after a unit buy
\* at 4, after the DCA buy at 3 that followed
SavedLedgers ==
    { [ ZeroState EXCEPT !.last_trade_date = Some(1) ],
      [ last_single_share_price |-> Some(4), total_invested |-> 4,
        total_shares |-> ShareScale, waiting_for_dca |-> TRUE,
        trades_today |-> 1, last_trade_date |-> Some(1) ],
      [ last_single_share_price |-> Some(4), total_invested |-> 24,
        total_shares |-> ShareScale + Shares(3), waiting_for_dca |-> FALSE,
        trades_today |-> 2, last_trade_date |-> Some(1) ] }

\* the data files: none, an unparseable one, or a saved ledger with any
\* subset of its keys
OldFiles ==
    {NoFile, Corrupt} \cup
    { Stored([ k \in K |-> l[k] ]) : l \in SavedLedgers, K \in SUBSET Fields }

\* the process is down; data is the ledger the earlier run had in memory
InitLoad ==
    /\ data \in SavedLedgers
    /\ disk \in OldFiles
    /\ today \in Days
    /\ fillsToday = 0
    /\ nfills = 0
    /\ lastFill = "none"
    /\ tick = [ NoTick EXCEPT !.outcome = "off" ]
    /\ host = NoHost

\* the first iteration of the __main__ loop after the start
FirstRun == tick.outcome = "loaded" /\ Run

NextLoad == Start \/ FirstRun

SpecLoad == InitLoad /\ [][NextLoad]_vars

-----------------------------------------------------------------------------
(* The bot object embedded in a host with two threads that both call run   *)
(* on it, with no lock.  A thread is switched out where run waits for the  *)
(* broker and between the load and the store of a += on a total; pc is the *)
(* line a thread is at, reg the value its pending += has loaded, price the *)
(* current_price of its call.  ordered and cost add up what the broker     *)
(* accepted; overlap records that a call of run began while another was in *)
(* progress.  The file is writable throughout: save_data does not raise.   *)

AllIdle == \A t \in Threads : host.pc[t] = "idle"

\* the thread returns from run
Return(h, t) ==
    [ h EXCEPT !.pc[t] = "idle", !.price[t] = 0, !.reg[t] = 0 ]

\* seeded fault: the store of line 113 writes back the value it loaded
StoreShares_not_added(d, loaded) == [ d EXCEPT !.total_shares = loaded ]

\* the store of self.data['total_shares'] += 1.0 (line 113)
StoreShares(d, loaded) == [ d EXCEPT !.total_shares = loaded + ShareScale ]

\* run from line 160 up to the call of submit_order: balance, quote,
\* daily-limit check with its rollover, phase test, funds test, price gate
RaceBegin(t) ==
    /\ host.pc[t] = "idle"
    /\ \E p \in Prices, b \in Balances :
        LET m0 == check_daily_trade_limit(Machine(data, disk),
                                          Env(p, b, "accept", 0, "open"),
                                          today)
            d == m0.data
            goes ==
                IF ~can_trade(d) THEN "idle"
                ELSE IF ~d.waiting_for_dca
                     THEN IF b >= p THEN "submit_unit" ELSE "idle"
                     ELSE IF d.last_single_share_price = None THEN "idle"
                          ELSE IF /\ p < d.last_single_share_price[1]
                                  /\ b >= dca_amount
                                  /\ p # 0
                               THEN "submit_dca"
                               ELSE "idle"
        IN  /\ data' = d
            /\ disk' = m0.disk
            /\ host' = [ host EXCEPT
                   !.pc[t] = goes,
                   !.price[t] = IF goes = "idle" THEN 0 ELSE p,
                   !.overlap = @ \/ \E u \in Threads \ {t} :
                                        host.pc[u] # "idle" ]
    /\ UNCHANGED <<today, fillsToday, nfills, lastFill, tick>>

\* submit_order returns (line 100 or 133): the broker takes the order or
\* raises, and then the buy function returns False and run ends
RaceSubmit(t) ==
    /\ host.pc[t] \in {"submit_unit", "submit_dca"}
    /\ \E a \in {"accept", "reject"} :
        /\ a = "accept" => nfills < MaxOrders
        /\ LET unit == host.pc[t] = "submit_unit" IN
           IF a = "reject"
           THEN /\ host' = Return(host, t)
                /\ UNCHANGED <<fillsToday, nfills, lastFill>>
           ELSE /\ host' = [ host EXCEPT
                       !.pc[t] = IF unit THEN "unit_111" ELSE "dca_144",
                       !.ordered = @ + IF unit THEN ShareScale
                                       ELSE Shares(host.price[t]),
                       !.cost = @ + IF unit THEN host.price[t]
                                    ELSE dca_amount ]
                /\ fillsToday' = fillsToday + 1
                /\ nfills' = nfills + 1
                /\ lastFill' = IF unit THEN "unit" ELSE "dca"
    /\ UNCHANGED <<data, disk, today, tick>>

\* buy_single_share, line 111 and the load of line 112
UnitLoadInvested(t) ==
    /\ host.pc[t] = "unit_111"
    /\ data' = [ data EXCEPT
           !.last_single_share_price = Some(host.price[t]) ]
    /\ host' = [ host EXCEPT !.pc[t] = "unit_112",
                             !.reg[t] = data.total_invested ]
    /\ UNCHANGED <<disk, today, fillsToday, nfills, lastFill, tick>>

\* buy_single_share, the store of line 112 and the load of line 113
UnitLoadShares(t) ==
    /\ host.pc[t] = "unit_112"
    /\ data' = [ data EXCEPT
           !.total_invested = host.reg[t] + host.price[t] ]
    /\ host' = [ host EXCEPT !.pc[t] = "unit_113",
                             !.reg[t] = data.total_shares ]
    /\ UNCHANGED <<disk, today, fillsToday, nfills, lastFill, tick>>

\* buy_single_share, the store of line 113 and lines 114-120: the phase,
\* record_trade, save_data, return True; run then reports the position
UnitFinish(t) ==
    /\ host.pc[t] = "unit_113"
    /\ LET d == [ StoreShares(data, host.reg[t]) EXCEPT
                      !.waiting_for_dca = TRUE, !.trades_today = @ + 1 ]
       IN  /\ data' = d
           /\ disk' = Stored(d)
    /\ host' = Return(host, t)
    /\ UNCHANGED <<today, fillsToday, nfills, lastFill, tick>>

\* dca_buy, the load of line 144
DcaLoadInvested(t) ==
    /\ host.pc[t] = "dca_144"
    /\ host' = [ host EXCEPT !.pc[t] = "dca_144_store",
                             !.reg[t] = data.total_invested ]
    /\ UNCHANGED <<data, disk, today, fillsToday, nfills, lastFill, tick>>

\* dca_buy, the store of line 144 and the load of line 145
DcaLoadShares(t) ==
    /\ host.pc[t] = "dca_144_store"
    /\ data' = [ data EXCEPT !.total_invested = host.reg[t] + dca_amount ]
    /\ host' = [ host EXCEPT !.pc[t] = "dca_145",
                             !.reg[t] = data.total_shares ]
    /\ UNCHANGED <<disk, today, fillsToday, nfills, lastFill, tick>>

\* dca_buy, the store of line 145 and lines 146-150: record_trade,
\* save_data, return True
DcaFinish(t) ==
    /\ host.pc[t] = "dca_145"
    /\ LET d == [ data EXCEPT
                      !.total_shares = host.reg[t] + Shares(host.price[t]),
                      !.trades_today = @ + 1 ]
       IN  /\ data' = d
           /\ disk' = Stored(d)
    /\ host' = [ host EXCEPT !.pc[t] = "run_198", !.reg[t] = 0 ]
    /\ UNCHANGED <<today, fillsToday, nfills, lastFill, tick>>

\* run, lines 198-199 after dca_buy returned True: the phase goes back and
\* is saved; run then reports the position
CycleReset(t) ==
    /\ host.pc[t] = "run_198"
    /\ LET d == [ data EXCEPT !.waiting_for_dca = FALSE ]
       IN  /\ data' = d
           /\ disk' = Stored(d)
    /\ host' = Return(host, t)
    /\ UNCHANGED <<today, fillsToday, nfills, lastFill, tick>>

\* midnight passes while no call of run is in progress
RaceNextDay == AllIdle /\ NextDay

NextRace ==
    \/ RaceNextDay
    \/ \E t \in Threads :
          \/ RaceBegin(t)
          \/ RaceSubmit(t)
          \/ UnitLoadInvested(t)
          \/ UnitLoadShares(t)
          \/ UnitFinish(t)
          \/ DcaLoadInvested(t)
          \/ DcaLoadShares(t)
          \/ DcaFinish(t)
          \/ CycleReset(t)

SpecRace == Init /\ [][NextRace]_vars

-----------------------------------------------------------------------------
(* Vocabulary of the properties *)

\* the step is a call of run that got its balance and quote
TickStep == today' = today /\ tick'.outcome # "fetch_error"

\* the date of the step differs from last_trade_date at its start
NewDate == data.last_trade_date # Some(today)

\* the ledger as the day-rollover step of a tick leaves it
Rolled ==
    IF NewDate
    THEN [ data EXCEPT !.trades_today = 0, !.last_trade_date = Some(today) ]
    ELSE data

\* an order was submitted in the last tick and the broker refused it
BrokerFailed == tick.order # "none" /\ ~tick.accepted

\* the last tick left the ledger as its rollover step left it, in memory,
\* and wrote the file only if it rolled the day over
OnlyRolled ==
    /\ data' = Rolled
    /\ ~NewDate => disk' = disk
    /\ NewDate /\ ~tick'.saveFailed => disk' = Stored(Rolled)

-----------------------------------------------------------------------------
(* C1 *)

\* C1 as stated: in every tick whose order submission fails the ledger is
\* identical before and after the tick, in memory and in the file.
C1_LedgerIdenticalOnBrokerFailure ==
    [][ TickStep /\ BrokerFailed' => data' = data /\ disk' = disk ]_vars

\* C1, amended: in every tick whose order submission (unit buy or DCA buy)
\* fails, the ledger after the tick is the ledger as the tick's day-rollover
\* step left it: reference price, totals and phase are untouched, the
\* counter and date change only by the rollover of a new date, and the
\* file is written only by that rollover.
C1_NoMutationOnBrokerFailure ==
    [][ TickStep /\ BrokerFailed' =>
            /\ data' = Rolled
            /\ disk' = IF NewDate THEN Stored(Rolled) ELSE disk ]_vars

\* a refused DCA order on a date the ledger had already seen
C1_Witness ==
    /\ tick.order = "dca" /\ ~tick.accepted
    /\ data.waiting_for_dca /\ data.trades_today = 1

-----------------------------------------------------------------------------
(* C2 *)

\* C2: in every tick with trades_today >= 2 after the rollover step no order
\* is submitted and the ledger is unchanged, in memory and in the file,
\* whatever the phase, the price and the balance.
C2_DailyLimitGate ==
    [][ TickStep /\ Rolled.trades_today >= DailyLimit =>
            /\ tick'.order = "none"
            /\ data' = data
            /\ disk' = disk ]_vars

\* a tick stopped by the limit with funds and a price that would have traded
C2_Witness ==
    /\ tick.outcome = "daily_limit"
    /\ data.trades_today = DailyLimit
    /\ ~data.waiting_for_dca
    /\ tick.balance >= tick.price

-----------------------------------------------------------------------------
(* C3 *)

\* C3: from the zero state, with dates that never go back and no restart,
\* the orders accepted on one calendar date (unit and DCA buys together)
\* never exceed 2, and trades_today never exceeds 2.
C3_AtMostTwoTradesPerDate ==
    /\ fillsToday <= DailyLimit
    /\ data.trades_today <= DailyLimit
    /\ data.trades_today >= 0

\* two orders accepted today and a third tick turned away
C3_Witness ==
    /\ fillsToday = DailyLimit
    /\ nfills > DailyLimit
    /\ tick.outcome = "daily_limit"

-----------------------------------------------------------------------------
(* C4 *)

\* C4: a tick in the unit-buy phase with trades_today < 2 after rollover,
\* balance >= price = P and an accepted order ends with reference price P,
\* phase DCA-pending, one more share, P more invested, one more trade.
C4_UnitBuyEffect ==
    [][ /\ TickStep
        /\ ~Rolled.waiting_for_dca
        /\ Rolled.trades_today < DailyLimit
        /\ tick'.balance >= tick'.price
        /\ tick'.accepted
        => /\ tick'.order = "unit"
           /\ data'.last_single_share_price = Some(tick'.price)
           /\ data'.waiting_for_dca
           /\ data'.total_shares = data.total_shares + ShareScale
           /\ data'.total_invested = data.total_invested + tick'.price
           /\ data'.trades_today = Rolled.trades_today + 1
           /\ data'.last_trade_date = Some(today) ]_vars

\* a second unit buy, made at 4 after a first cycle
C4_Witness ==
    /\ tick.outcome = "unit" /\ tick.accepted /\ tick.price = 4
    /\ data.last_single_share_price = Some(4)
    /\ data.total_shares > ShareScale
    /\ data.waiting_for_dca

-----------------------------------------------------------------------------
(* C5 *)

\* C5: a tick in the DCA-pending phase with trades_today < 2 after rollover,
\* price P below the reference price, balance >= dca_amount and an accepted
\* order ends with dca_amount / P more shares, dca_amount more invested,
\* one more trade and the phase back at unit buy.
C5_DcaBuyEffect ==
    [][ /\ TickStep
        /\ Rolled.waiting_for_dca
        /\ Rolled.trades_today < DailyLimit
        /\ data.last_single_share_price # None
        /\ tick'.price < data.last_single_share_price[1]
        /\ tick'.balance >= dca_amount
        /\ tick'.accepted
        => /\ tick'.order = "dca"
           /\ (data'.total_shares - data.total_shares) * tick'.price
                  = dca_amount * ShareScale
           /\ data'.total_invested = data.total_invested + dca_amount
           /\ data'.trades_today = Rolled.trades_today + 1
           /\ ~data'.waiting_for_dca ]_vars

\* the same effect in the ticks none of whose save_data calls raised
C5_DcaBuyEffectWhenSaved ==
    [][ /\ TickStep
        /\ Rolled.waiting_for_dca
        /\ Rolled.trades_today < DailyLimit
        /\ data.last_single_share_price # None
        /\ tick'.price < data.last_single_share_price[1]
        /\ tick'.balance >= dca_amount
        /\ tick'.accepted
        /\ ~tick'.saveFailed
        => /\ tick'.order = "dca"
           /\ (data'.total_shares - data.total_shares) * tick'.price
                  = dca_amount * ShareScale
           /\ data'.total_invested = data.total_invested + dca_amount
           /\ data'.trades_today = Rolled.trades_today + 1
           /\ data'.last_single_share_price = data.last_single_share_price
           /\ ~data'.waiting_for_dca ]_vars

-----------------------------------------------------------------------------
(* C6 *)

\* C6: a DCA order is submitted only in a tick of the DCA-pending phase
\* whose price is strictly below the reference price; in every tick of that
\* phase with price >= reference price (equality included) no order is
\* submitted and the ledger stays as the rollover step left it.
C6_PriceGate ==
    [][ TickStep =>
          /\ tick'.order = "dca" =>
                /\ data.waiting_for_dca
                /\ data.last_single_share_price # None
                /\ tick'.price < data.last_single_share_price[1]
          /\ ( /\ data.waiting_for_dca
               /\ data.last_single_share_price # None
               /\ tick'.price >= data.last_single_share_price[1] )
             => tick'.order = "none" /\ OnlyRolled ]_vars

\* a tick at exactly the reference price, with funds for the DCA, that waited
C6_Witness ==
    /\ tick.outcome = "waiting"
    /\ data.waiting_for_dca
    /\ data.last_single_share_price = Some(tick.price)
    /\ tick.balance >= dca_amount
    /\ tick.price > 0

-----------------------------------------------------------------------------
(* C7 *)

\* C7: a unit buy is submitted only with balance >= price, a DCA buy only
\* with balance >= dca_amount; in every tick whose phase needs more than the
\* balance no order is submitted and the ledger stays as the rollover step
\* left it.
C7_FundsGate ==
    [][ TickStep =>
          /\ tick'.order = "unit" => tick'.balance >= tick'.price
          /\ tick'.order = "dca" => tick'.balance >= dca_amount
          /\ ( \/ ~data.waiting_for_dca /\ tick'.balance < tick'.price
               \/ data.waiting_for_dca /\ tick'.balance < dca_amount )
             => tick'.order = "none" /\ OnlyRolled ]_vars

\* a unit buy not attempted because the price exceeds the balance
C7_Witness ==
    /\ tick.outcome = "no_funds_unit"
    /\ tick.balance < tick.price
    /\ ~data.waiting_for_dca
    /\ data.trades_today < DailyLimit

\* a DCA not attempted, the price below the reference, for lack of funds
C7_WitnessDca ==
    /\ tick.outcome = "no_funds_dca"
    /\ tick.balance < dca_amount
    /\ data.waiting_for_dca

-----------------------------------------------------------------------------
(* C8 *)

\* C8: trades_today is reset to 0 and last_trade_date set to today, and the
\* ledger saved, in exactly the ticks whose date differs from
\* last_trade_date at their start (the count then holds only the tick's own
\* trade); in a tick on the date already recorded the date stays and the
\* counter is never reset nor decreased; after any tick a second rollover
\* on the same date finds nothing to do.
C8_DayRollover ==
    [][ TickStep =>
          /\ NewDate =>
                /\ data'.last_trade_date = Some(today)
                /\ data'.trades_today = IF tick'.accepted THEN 1 ELSE 0
                /\ ~tick'.saveFailed => disk' = Stored(data')
          /\ ~NewDate =>
                /\ data'.last_trade_date = data.last_trade_date
                /\ data'.trades_today =
                       data.trades_today + IF tick'.accepted THEN 1 ELSE 0
                /\ tick'.order = "none" => disk' = disk
          /\ Rolled' = data' ]_vars

\* a day's two trades wiped by the first tick of the next date, which did
\* not trade itself
C8_Witness ==
    /\ today > 1
    /\ data.last_trade_date = Some(today)
    /\ data.trades_today = 0
    /\ fillsToday = 0
    /\ nfills >= DailyLimit
    /\ tick.outcome = "no_funds_unit"
    /\ disk = Stored(data)

-----------------------------------------------------------------------------
(* C9 *)

\* C9: in every state reached from the zero state by ticks, whatever the
\* broker answers, the DCA-pending phase has a reference price.
C9_ReferenceSetWhenDcaPending ==
    data.waiting_for_dca => data.last_single_share_price # None

\* the phase just entered by a unit buy
C9_Witness ==
    /\ data.waiting_for_dca
    /\ tick.outcome = "unit" /\ tick.accepted
    /\ data.last_single_share_price = Some(tick.price)

-----------------------------------------------------------------------------
(* C10 *)

\* C10: every tick whose price is <= 0 fails without mutating the ledger,
\* in either phase: no buy is booked at such a price and the ledger stays as
\* the rollover step left it.
C10_InvalidPriceNoMutation ==
    [][ TickStep /\ tick'.price <= 0 =>
            ~tick'.accepted /\ data' = Rolled ]_vars

-----------------------------------------------------------------------------
(* C11 *)

\* C11: at the end of every completed tick the file holds the ledger that is
\* in memory, so that a restart between ticks resumes from exactly that
\* ledger; and a kill inside a tick loses at most the order in flight: the
\* ledger then read back has the totals of before the tick or those the
\* process had when it died.
C11_PersistedAfterEveryTick ==
    [][ /\ (ProcessUp' /\ ~tick'.raised) => __init__(disk') = data'
        /\ (ProcessUp /\ tick'.outcome = "killed") =>
              LET l == __init__(disk') IN
              /\ l.total_shares \in {data.total_shares, data'.total_shares}
              /\ l.total_invested
                     \in {data.total_invested, data'.total_invested} ]_vars

-----------------------------------------------------------------------------
(* C12 *)

\* C12: a save interrupted by the end of the process leaves the prior valid
\* ledger in the file: a file that held a ledger before the kill holds one
\* after it, never an unparseable document.
C12_AtomicSave ==
    [][ (ProcessUp /\ tick'.outcome = "killed" /\ disk.status = "ok")
            => disk'.status = "ok" ]_vars

-----------------------------------------------------------------------------
(* C13 *)

\* C13: a save_data call that raises during a tick is surfaced to the caller
\* (run ends with the exception) and the system does not continue: after
\* such a tick no tick is evaluated and no order submitted.
C13_StorageFailureIsFatal ==
    [][ /\ tick'.saveFailed => tick'.raised
        /\ tick.saveFailed =>
              UNCHANGED <<data, disk, fillsToday, nfills, lastFill, tick>>
      ]_vars

-----------------------------------------------------------------------------
(* C14 *)

\* C14: the start on a stored record that lacks any subset of the keys gives
\* a ledger with every key, the absent ones at their zero value and the
\* present ones as stored, and the tick that follows meets no missing key.
C14_LoadBackfillsMissingFields ==
    [][ /\ (tick'.outcome = "loaded" /\ disk.status = "ok") =>
              /\ DOMAIN data' = Fields
              /\ \A k \in Fields :
                     data'[k] = IF Has(disk.content, k) THEN disk.content[k]
                                                        ELSE ZeroState[k]
        /\ (tick.outcome = "loaded" /\ TickStep) => ~tick'.keyError ]_vars

\* C14, amended: the start on a stored record adds exactly the keys
\* trades_today and last_trade_date when they are absent, at 0 and None;
\* every key present keeps its stored value and any other absent key stays
\* absent; the tick that follows a start that left no key absent meets no
\* missing key.
C14_LoadBackfillsNewerKeys ==
    [][ /\ (tick'.outcome = "loaded" /\ disk.status = "ok") =>
              /\ DOMAIN data' =
                     DOMAIN disk.content
                         \cup {"trades_today", "last_trade_date"}
              /\ \A k \in DOMAIN data' :
                     data'[k] = IF Has(disk.content, k) THEN disk.content[k]
                                                        ELSE ZeroState[k]
        /\ (tick.outcome = "loaded" /\ TickStep /\ DOMAIN data = Fields)
              => ~tick'.keyError ]_vars

\* started on a record of the older version: the four older keys only
C14_Witness ==
    /\ tick.outcome = "loaded"
    /\ disk.status = "ok"
    /\ DOMAIN disk.content = Fields \ {"trades_today", "last_trade_date"}
    /\ DOMAIN data = Fields
    /\ data.trades_today = 0 /\ data.last_trade_date = None
    /\ data.waiting_for_dca /\ data.total_invested = 4

-----------------------------------------------------------------------------
(* C15 *)

\* C15: the start on a missing or unparseable data file gives the zero
\* state: no reference price, totals 0, unit-buy phase, no trade today, no
\* trade date.
C15_LoadWithoutFileIsZeroState ==
    [][ (tick'.outcome = "loaded" /\ disk.status # "ok") =>
            /\ data' = ZeroState
            /\ data'.last_single_share_price = None
            /\ data'.total_invested = 0 /\ data'.total_shares = 0
            /\ ~data'.waiting_for_dca
            /\ data'.trades_today = 0 /\ data'.last_trade_date = None ]_vars

\* started on an unparseable file
C15_Witness ==
    /\ tick.outcome = "loaded"
    /\ disk.status = "corrupt"
    /\ data = ZeroState

-----------------------------------------------------------------------------
(* C16 *)

\* C16: the record left in the file by a tick whose DCA order was accepted,
\* once it holds the DCA's increment of total_invested, has waiting_for_dca
\* False, so a start from it cannot repeat the DCA.
C16_DcaPersistedWithPhaseChange ==
    [][ ( /\ tick'.order = "dca" /\ tick'.accepted
          /\ disk'.status = "ok"
          /\ disk'.content.total_invested = data.total_invested + dca_amount )
        => ~disk'.content.waiting_for_dca ]_vars

-----------------------------------------------------------------------------
(* C17 *)

\* C17: the orders the broker accepts alternate unit buy, DCA buy, unit buy,
\* ..., the first being a unit buy: an accepted order is never of the kind
\* of the accepted order before it, broker and save failures included.
C17_StrictAlternation ==
    [][ nfills' = nfills + 1 =>
            /\ tick'.order # lastFill
            /\ lastFill = "none" => tick'.order = "unit" ]_vars

-----------------------------------------------------------------------------
(* C18 *)

\* C18: as long as no call of run has begun while another was in progress,
\* an accepted unit buy never follows an accepted unit buy (no two unit buys
\* are made on one observation of the phase), and whenever no call is in
\* progress the ledger's totals are what the broker accepted.
C18_SerializedTicksLoseNoUpdate ==
    [][ ~host'.overlap =>
            /\ (nfills' = nfills + 1 /\ lastFill' = "unit")
                   => lastFill # "unit"
            /\ AllIdle' => /\ data'.total_shares = host'.ordered
                           /\ data'.total_invested = host'.cost ]_vars

\* two calls of run overlapped from the zero state: both found
\* waiting_for_dca False, the broker accepted a unit buy from each, and the
\* ledger holds one share and the price of one
C18_Witness ==
    /\ AllIdle /\ host.overlap
    /\ nfills = 2 /\ lastFill = "unit"
    /\ host.ordered = 2 * ShareScale /\ host.cost = 8
    /\ data.total_shares = ShareScale /\ data.total_invested = 4
    /\ data.waiting_for_dca

-----------------------------------------------------------------------------
(* C19 *)

\* the bounds of the model leave room for one more trade: the broker has
\* orders left, and the daily count is below the limit today or a further
\* day is to come
RoomToTrade ==
    /\ nfills < MaxOrders
    /\ Rolled.trades_today < DailyLimit \/ today < MaxDay

\* C19: the loop can always make another call of run; the call made on the
\* same day, quote and balance after a call whose order the broker refused
\* submits the same order; and when waiting_for_dca is False and there is
\* room to trade, a unit buy is eventually accepted and waiting_for_dca
\* becomes True.
C19_RetryLiveness ==
    /\ [](ProcessUp /\ ENABLED Run)
    /\ [][ ( /\ BrokerFailed /\ TickStep /\ ~NewDate
             /\ tick'.price = tick.price /\ tick'.balance = tick.balance )
           => tick'.order = tick.order ]_vars
    /\ (~data.waiting_for_dca /\ RoomToTrade) ~> data.waiting_for_dca

\* the first order the broker accepted came on the second day: a unit buy,
\* after a first day of iterations that bought nothing
C19_Witness ==
    /\ today = 2 /\ nfills = 1 /\ fillsToday = 1
    /\ tick.order = "unit" /\ tick.accepted
    /\ data.waiting_for_dca

-----------------------------------------------------------------------------
(* C20 *)

\* C20: a step changes last_single_share_price only if it is a call of run
\* in which the broker accepted a unit buy (an accepted DCA buy, a day
\* rollover, a tick that does nothing and a tick that fails leave it as it
\* was), and no step lowers total_invested or total_shares.
C20_ReferenceAndTotalsFrame ==
    [][ /\ data'.last_single_share_price # data.last_single_share_price
              => (TickStep /\ tick'.order = "unit" /\ tick'.accepted)
        /\ data'.total_invested >= data.total_invested
        /\ data'.total_shares >= data.total_shares ]_vars

\* a DCA buy went through at 3 on a day after the unit buy at 4: the
\* reference price is still 4 and the totals hold both buys
C20_Witness ==
    /\ tick.order = "dca" /\ tick.accepted /\ tick.price = 3
    /\ data.last_single_share_price = Some(4)
    /\ data.last_trade_date = Some(2) /\ data.trades_today = 1
    /\ data.total_invested = 4 + dca_amount
    /\ data.total_shares = ShareScale + Shares(3)

====
